---- MODULE Spec2Model ----
(***************************************************************************)
(* Model of scripts/BehavPreprocess.py: the construction of a              *)
(* BehavPreprocess object (BehavPreprocess.__init__), stage by stage.      *)
(*                                                                         *)
(* Arrays are sequences; a spectral tensor (channels x frames) is kept as  *)
(* the sequence of its columns, one column per frame.  Python indices are  *)
(* 0-based: frame offset f is element f+1 of a sequence.  A float is a     *)
(* record [k, n, d]: a finite rational n/d, or nan, +inf, -inf.            *)
(* External primitives (pandas.read_csv, find_wav, threshold_otsu) return  *)
(* values drawn from small sets.                                           *)
(***************************************************************************)
EXTENDS Integers, Sequences, FiniteSets, TLC

\* ---------------------------------------------------------------- bounds
MaxExps == 2          \* longest path_list
MaxTi == 1            \* largest ti
MaxBoundLen == 2      \* largest bound_len
MaxClipLen == 3       \* largest clip_len
NumElectrodes == 4    \* len(headband_setup.electrode_names())
NumChan == 2          \* num_channels handed to find_wav

\* savgol_filter(x, 5, 4): the window length
SavgolWindow == 5

\* tf=None, the default of the constructor
None == -1

Min(a, b) == IF a <= b THEN a ELSE b
Max(a, b) == IF a >= b THEN a ELSE b
Abs(a) == IF a < 0 THEN 0 - a ELSE a

RECURSIVE GCD(_, _)
GCD(a, b) == IF b = 0 THEN a ELSE GCD(b, a % b)

\* ---------------------------------------------------------------- floats
Fin(n) == [k |-> "fin", n |-> n, d |-> 1]
NaN == [k |-> "nan", n |-> 0, d |-> 1]
PInf == [k |-> "inf", n |-> 1, d |-> 1]
NInf == [k |-> "inf", n |-> 0 - 1, d |-> 1]

\* the rational a/b (b # 0) in lowest terms, denominator positive
Frac(a, b) ==
    LET g == GCD(Abs(a), Abs(b))
        s == IF b < 0 THEN 0 - 1 ELSE 1
    IN [k |-> "fin", n |-> (s * a) \div g, d |-> (s * b) \div g]

\* IEEE division x / m as numpy performs it
FloatDiv(x, m) ==
    IF x.k = "nan" \/ m.k = "nan" THEN NaN
    ELSE IF x.k = "inf" /\ m.k = "inf" THEN NaN
    ELSE IF m.k = "inf" THEN Fin(0)
    ELSE IF x.k = "inf" THEN (IF (x.n < 0) = (m.n < 0) THEN PInf ELSE NInf)
    ELSE IF m.n = 0 THEN (IF x.n = 0 THEN NaN ELSE IF x.n > 0 THEN PInf ELSE NInf)
    ELSE Frac(x.n * m.d, x.d * m.n)

\* a < b on floats (false when either is nan)
FloatLess(a, b) ==
    /\ a.k # "nan"
    /\ b.k # "nan"
    /\ IF a.k = "inf" THEN a.n < 0 /\ ~(b.k = "inf" /\ b.n < 0)
       ELSE IF b.k = "inf" THEN b.n > 0
       ELSE a.n * b.d < b.n * a.d

IsFinite(v) == v.k = "fin"

\* exp.max(axis=0) for one column: nan propagates
RECURSIVE ColMaxFrom(_, _, _)
ColMaxFrom(col, i, acc) ==
    IF i > Len(col) THEN acc
    ELSE IF col[i].k = "nan" \/ acc.k = "nan" THEN NaN
    ELSE ColMaxFrom(col, i + 1, IF FloatLess(acc, col[i]) THEN col[i] ELSE acc)
ColMax(col) == ColMaxFrom(col, 2, col[1])

\* np.sum(exp, axis=0) for one column of transform output (integers or nan)
RECURSIVE ColSumFrom(_, _, _)
ColSumFrom(col, i, acc) ==
    IF i > Len(col) THEN Fin(acc)
    ELSE IF col[i].k # "fin" THEN NaN
    ELSE ColSumFrom(col, i + 1, acc + col[i].n)
ColSum(col) == ColSumFrom(col, 1, 0)

\* np.log10(s): a finite result log10(s) is written [k |-> "log", n |-> s],
\* log10(0) = -inf, log10 of a negative number or of nan is nan.
Log10(s) ==
    IF s.k # "fin" \/ s.n < 0 THEN [k |-> "nan", n |-> 0]
    ELSE IF s.n = 0 THEN [k |-> "ninf", n |-> 0]
    ELSE [k |-> "log", n |-> s.n]

\* amp < thr on log10 values: log10 is increasing, nan compares false
AmpLess(a, thr) ==
    /\ a.k # "nan"
    /\ thr.k # "nan"
    /\ \/ a.k = "ninf" /\ thr.k = "log"
       \/ a.k = "log" /\ thr.k = "log" /\ a.n < thr.n

\* ---------------------------------------------------------------- helpers
RECURSIVE Concatenate(_)
Concatenate(list) ==
    IF Len(list) = 0 THEN <<>> ELSE Head(list) \o Concatenate(Tail(list))

\* a[mask] : boolean-mask indexing of a 1-d array / of the frame axis
RECURSIVE SelectFrom(_, _, _)
SelectFrom(a, mask, i) ==
    IF i > Len(a) THEN <<>>
    ELSE (IF mask[i] THEN <<a[i]>> ELSE <<>>) \o SelectFrom(a, mask, i + 1)
MaskIndex(a, mask) == SelectFrom(a, mask, 1)

\* Python slice bound i on an array of length n
SliceBound(i, n) == IF i < 0 THEN Max(i + n, 0) ELSE Min(i, n)
\* offsets selected by a[:stop] and by a[start:]
SliceTo(stop, n) == {f \in 0..(n - 1) : f < SliceBound(stop, n)}
SliceFrom(start, n) == {f \in 0..(n - 1) : f >= SliceBound(start, n)}

\* folder_name in experiment_path (strings as sequences of characters)
IsSubstring(s, t) ==
    \E i \in 0..Len(t) :
        /\ i + Len(s) <= Len(t)
        /\ \A j \in 1..Len(s) : t[i + j] = s[j]

\* ---------------------------------------------------------------- inputs
Behav == [NONE |-> "NONE", REST |-> "REST", BOUNDARY |-> "BOUNDARY",
          WALK |-> "WALK", GROOM |-> "GROOM"]

\* the recordings on disk: path, number of rows, and the signal they hold
Catalog ==
    { [path |-> <<"a", "b">>, rows |-> 5, sig |-> 1],
      [path |-> <<"c", "b">>, rows |-> 2, sig |-> 2],
      [path |-> <<"a", "c", "d", "e">>, rows |-> 6, sig |-> 3] }

SeqsUpTo(S, n) == UNION {[1..m -> S] : m \in 0..n}
PathLists == SeqsUpTo(Catalog, MaxExps)

\* behav_annotation.label_gt_list: ((start, end), label, folder_name)
GtLists ==
    { <<>>,
      << [start |-> 0, end |-> 6, label |-> Behav.WALK, folder |-> <<"a">>] >>,
      << [start |-> 1, end |-> 4, label |-> Behav.WALK, folder |-> <<>>],
         [start |-> 2, end |-> 8, label |-> Behav.GROOM, folder |-> <<"b">>] >> }

DefaultGt ==
    << [start |-> 0, end |-> 6, label |-> Behav.WALK, folder |-> <<"a">>] >>

\* entry (channel c, frame f) of the tensor find_wav returns for a signal
WavEntry(sig, f, c) ==
    IF sig = 1 THEN Fin(((f + c) % 3) + 1)
    ELSE IF sig = 2 THEN
        (IF f % 3 = 0 THEN Fin(0) ELSE IF f % 3 = 1 THEN Fin(1) ELSE Fin(c))
    ELSE (IF f % 4 = 1 THEN (IF c = 1 THEN NaN ELSE Fin(1))
          ELSE IF f % 4 = 2 THEN (IF c = 1 THEN Fin(0 - 1) ELSE Fin(0))
          ELSE Fin(2 * c))

\* find_wav(np.transpose(x), chan, ...) transposed back: chan x frames
find_wav(sig, frames, chan) ==
    [f \in 1..frames |-> [c \in 1..chan |-> WavEntry(sig, f - 1, c)]]

Configs ==
    LET base == [path_list |-> <<>>, ti |-> 0, tf |-> None,
                 bound_len |-> 1, clip_len |-> 2,
                 smooth |-> FALSE, mean_center |-> FALSE, normalize |-> TRUE,
                 no_bounds |-> FALSE, dump_rest |-> FALSE,
                 label_gt_list |-> DefaultGt]
    IN
    \* the time window and the recordings vary
    { [base EXCEPT !.path_list = p, !.ti = a, !.tf = b, !.smooth = s] :
        p \in PathLists, a \in 0..MaxTi, b \in {None} \cup 0..(MaxTi + 2),
        s \in BOOLEAN }
    \cup
    \* the stage switches and the boundary width vary
    { [base EXCEPT !.path_list = p, !.bound_len = b, !.smooth = s,
                   !.mean_center = m, !.normalize = n, !.no_bounds = nb,
                   !.dump_rest = dr] :
        p \in PathLists, b \in 0..MaxBoundLen, s \in BOOLEAN, m \in BOOLEAN,
        n \in BOOLEAN, nb \in BOOLEAN, dr \in BOOLEAN }
    \cup
    \* the labelling parameters vary
    { [base EXCEPT !.path_list = p, !.bound_len = b, !.clip_len = c,
                   !.label_gt_list = g, !.tf = t] :
        p \in PathLists, b \in 0..MaxBoundLen, c \in 0..MaxClipLen,
        g \in GtLists, t \in {None, 3} }

\* ---------------------------------------------------------------- state
VARIABLES
    cfg,                \* the constructor's arguments and label_gt_list
    pc,                 \* the stage about to run; "done" or "failed" at the end
    error,              \* the exception that ended construction, or "none"
    tf,                 \* the local tf, rebound by the reading loop
    exp_eeg_list, smooth_exp_list,
    wav_exp_list, norm_wav_exp_list,
    spect_out,          \* what find_wav returned, experiment by experiment
    freq_channels,      \* TRUE once self.freq_channels is bound
    frame_amp_list,
    exp_idx, frame_idx,
    data_behav_concat,  \* per-experiment label arrays, one flat array after line 175
    gt_behav,           \* the label arrays as the ground-truth pass left them
    thr_list,           \* the thresholds threshold_otsu returned
    test_rest_mask, test_boundary_mask,
    data_concat, data_mask,
    preprocess_data, frame_index, experminet_index, frame_amplitudes

vars == << cfg, pc, error, tf, exp_eeg_list, smooth_exp_list, wav_exp_list,
           norm_wav_exp_list, spect_out, freq_channels, frame_amp_list,
           exp_idx, frame_idx, data_behav_concat, gt_behav, thr_list,
           test_rest_mask, test_boundary_mask, data_concat, data_mask,
           preprocess_data, frame_index, experminet_index, frame_amplitudes >>

loadVars == << exp_eeg_list, smooth_exp_list >>
specVars == << wav_exp_list, norm_wav_exp_list, spect_out, freq_channels,
               frame_amp_list >>
idxVars == << exp_idx, frame_idx >>
labelVars == << data_behav_concat, gt_behav, thr_list, test_rest_mask,
                test_boundary_mask >>
outVars == << data_concat, data_mask, preprocess_data, frame_index,
              experminet_index, frame_amplitudes >>

NumExps == Len(cfg.path_list)
\* exp.shape[1] of a loaded matrix: its frame count
Frames(i) == exp_eeg_list[i].shape[2]

Init ==
    /\ cfg \in Configs
    /\ pc = "read"
    /\ error = "none"
    /\ tf = cfg.tf
    /\ exp_eeg_list = <<>>
    /\ smooth_exp_list = <<>>
    /\ wav_exp_list = <<>>
    /\ norm_wav_exp_list = <<>>
    /\ spect_out = <<>>
    /\ freq_channels = FALSE
    /\ frame_amp_list = <<>>
    /\ exp_idx = <<>>
    /\ frame_idx = <<>>
    /\ data_behav_concat = <<>>
    /\ gt_behav = <<>>
    /\ thr_list = <<>>
    /\ test_rest_mask = <<>>
    /\ test_boundary_mask = <<>>
    /\ data_concat = <<>>
    /\ data_mask = <<>>
    /\ preprocess_data = <<>>
    /\ frame_index = <<>>
    /\ experminet_index = <<>>
    /\ frame_amplitudes = <<>>

Fail(exc) ==
    /\ pc' = "failed"
    /\ error' = exc

\* ---------------------------------------------------------------- reading
\* the bound taken afresh from the argument for every recording
ResolveTfPerExperiment(cur_tf, rows) ==
    IF cfg.tf = None THEN rows ELSE Min(cfg.tf, rows)

\* lines 65-68: the bound tf after looking at a recording of `rows` rows
ResolveTf(cur_tf, rows) ==
    IF cur_tf = None THEN rows ELSE Min(cur_tf, rows)

\* line 70-72: np.zeros((electrodes, tf-ti)) filled with the columns [ti:tf]
NewMatrix(electrodes, frames) ==
    [shape |-> <<electrodes, frames>>, smoothed |-> FALSE, centered |-> FALSE]

\* one pass of the reading loop that gets past the assertion
ReadExperiment ==
    /\ pc = "read"
    /\ Len(exp_eeg_list) < NumExps
    /\ LET exp == cfg.path_list[Len(exp_eeg_list) + 1]
           new_tf == ResolveTf(tf, exp.rows)
       IN /\ new_tf > cfg.ti
          /\ tf' = new_tf
          /\ exp_eeg_list' =
                Append(exp_eeg_list, NewMatrix(NumElectrodes, new_tf - cfg.ti))
    /\ UNCHANGED << cfg, pc, error, smooth_exp_list, specVars, idxVars,
                    labelVars, outVars >>

\* line 69: assert tf > ti
ReadAssertFail ==
    /\ pc = "read"
    /\ Len(exp_eeg_list) < NumExps
    /\ LET exp == cfg.path_list[Len(exp_eeg_list) + 1]
           new_tf == ResolveTf(tf, exp.rows)
       IN /\ new_tf <= cfg.ti
          /\ tf' = new_tf
    /\ Fail("AssertionError")
    /\ UNCHANGED << cfg, loadVars, specVars, idxVars, labelVars, outVars >>

\* lines 74-81: the loop is over; the diagnostics are printed
QualityScan ==
    /\ pc = "read"
    /\ Len(exp_eeg_list) = NumExps
    /\ pc' = "smooth"
    /\ UNCHANGED << cfg, error, tf, loadVars, specVars, idxVars, labelVars,
                    outVars >>

\* ---------------------------------------------------------------- conditioning
\* savgol_filter(x, 5, 4) with the default mode "interp" raises ValueError
\* when the window is longer than x
SavgolFails(matrix) == matrix.shape[2] < SavgolWindow

\* lines 85-93: a new smoothed array per experiment, or the same list object
SmoothList(eeg_list, smooth) ==
    IF smooth
    THEN [i \in 1..Len(eeg_list) |-> [eeg_list[i] EXCEPT !.smoothed = TRUE]]
    ELSE eeg_list

Smooth ==
    /\ pc = "smooth"
    /\ ~(cfg.smooth /\ \E i \in 1..NumExps : SavgolFails(exp_eeg_list[i]))
    /\ smooth_exp_list' = SmoothList(exp_eeg_list, cfg.smooth)
    /\ pc' = "center"
    /\ UNCHANGED << cfg, error, tf, exp_eeg_list, specVars, idxVars, labelVars,
                    outVars >>

SmoothFail ==
    /\ pc = "smooth"
    /\ cfg.smooth
    /\ \E i \in 1..NumExps : SavgolFails(exp_eeg_list[i])
    /\ Fail("ValueError")
    /\ UNCHANGED << cfg, tf, loadVars, specVars, idxVars, labelVars, outVars >>

\* lines 96-100: each channel has its mean subtracted in place
CenterList(list, mean_center) ==
    IF mean_center
    THEN [i \in 1..Len(list) |-> [list[i] EXCEPT !.centered = TRUE]]
    ELSE list

\* With smooth=False, smooth_exp_list is exp_eeg_list (line 93): the in-place
\* subtraction changes the arrays both names refer to.
MeanCenter ==
    /\ pc = "center"
    /\ smooth_exp_list' = CenterList(smooth_exp_list, cfg.mean_center)
    /\ exp_eeg_list' = IF cfg.smooth THEN exp_eeg_list
                       ELSE CenterList(smooth_exp_list, cfg.mean_center)
    /\ pc' = "transform"
    /\ UNCHANGED << cfg, error, tf, specVars, idxVars, labelVars, outVars >>

\* ---------------------------------------------------------------- spectra
\* lines 106-110: one tensor per experiment, as many frames as its input
TransformList(list) ==
    [i \in 1..Len(list) |->
        find_wav(cfg.path_list[i].sig, list[i].shape[2], NumChan)]

Transform ==
    /\ pc = "transform"
    /\ NumExps > 0
    /\ wav_exp_list' = TransformList(smooth_exp_list)
    /\ spect_out' = TransformList(smooth_exp_list)
    /\ freq_channels' = TRUE
    /\ pc' = "stats"
    /\ UNCHANGED << cfg, error, tf, loadVars, norm_wav_exp_list,
                    frame_amp_list, idxVars, labelVars, outVars >>

\* line 111 reads self.freq_channels, which only the loop body binds
TransformFail ==
    /\ pc = "transform"
    /\ NumExps = 0
    /\ Fail("AttributeError")
    /\ UNCHANGED << cfg, tf, loadVars, specVars, idxVars, labelVars, outVars >>

\* lines 118-119: np.log10(np.sum(exp, axis=0))
FrameAmp(exp) == [f \in 1..Len(exp) |-> Log10(ColSum(exp[f]))]

\* lines 114-119 (frame_var_list is read by no later stage and is left out)
FrameStats ==
    /\ pc = "stats"
    /\ frame_amp_list' = [i \in 1..Len(wav_exp_list) |-> FrameAmp(wav_exp_list[i])]
    /\ pc' = "normalize"
    /\ UNCHANGED << cfg, error, tf, loadVars, wav_exp_list, norm_wav_exp_list,
                    spect_out, freq_channels, idxVars, labelVars, outVars >>

\* line 126: exp / exp.max(axis=0)
NormalizeExp(exp) ==
    [f \in 1..Len(exp) |->
        [c \in 1..Len(exp[f]) |-> FloatDiv(exp[f][c], ColMax(exp[f]))]]

\* the columns divided whatever the switch says
NormalizeAlways(list, normalize) ==
    [i \in 1..Len(list) |-> NormalizeExp(list[i])]

\* lines 124-126: the elements of the list are replaced when normalize is set
NormalizeList(list, normalize) ==
    IF normalize THEN [i \in 1..Len(list) |-> NormalizeExp(list[i])] ELSE list

\* line 123 binds norm_wav_exp_list to the list object wav_exp_list: the
\* element assignments of line 126 are seen through both names.
Normalize ==
    /\ pc = "normalize"
    /\ norm_wav_exp_list' = NormalizeList(wav_exp_list, cfg.normalize)
    /\ wav_exp_list' = NormalizeList(wav_exp_list, cfg.normalize)
    /\ pc' = "index"
    /\ UNCHANGED << cfg, error, tf, loadVars, spect_out, freq_channels,
                    frame_amp_list, idxVars, labelVars, outVars >>

\* ---------------------------------------------------------------- indices
\* experiment ids counted from 1
ExpIdxFromOne(eeg_list) ==
    Concatenate([i \in 1..Len(eeg_list) |->
                    [f \in 1..eeg_list[i].shape[2] |-> i]])

\* lines 129-131: np.ones(exp.shape[1]) * idx, concatenated
ExpIdx(eeg_list) ==
    Concatenate([i \in 1..Len(eeg_list) |->
                    [f \in 1..eeg_list[i].shape[2] |-> i - 1]])

\* lines 132-133: np.arange(0, exp.shape[1]), concatenated
FrameIdx(eeg_list) ==
    Concatenate([i \in 1..Len(eeg_list) |->
                    [f \in 1..eeg_list[i].shape[2] |-> f - 1]])

SetIndex ==
    /\ pc = "index"
    /\ exp_idx' = ExpIdx(exp_eeg_list)
    /\ frame_idx' = FrameIdx(exp_eeg_list)
    /\ pc' = "label_gt"
    /\ UNCHANGED << cfg, error, tf, loadVars, specVars, labelVars, outVars >>

\* ---------------------------------------------------------------- labels
\* line 143-144: range(clip_len // 2, exp.shape[0] - clip_len // 2)
GtOffsets(matrix, clip_len) ==
    (clip_len \div 2)..(matrix.shape[1] - (clip_len \div 2) - 1)

\* lines 149-152: the interval applies to the experiment and to offset_mid
GtHit(gt, path, offset_mid, clip_len) ==
    /\ IsSubstring(gt.folder, path)
    /\ gt.start <= offset_mid
    /\ offset_mid < gt.end
    /\ Min(Abs(offset_mid - gt.start), Abs(offset_mid - gt.end)) > clip_len \div 3

\* lines 147-153 for one offset_mid: every hit overwrites the label
RECURSIVE GtLabelFrom(_, _, _, _, _, _)
GtLabelFrom(gts, g, path, offset_mid, clip_len, cur) ==
    IF g > Len(gts) THEN cur
    ELSE GtLabelFrom(gts, g + 1, path, offset_mid, clip_len,
                     IF GtHit(gts[g], path, offset_mid, clip_len)
                     THEN gts[g].label ELSE cur)

\* lines 140-153 for one experiment of n frames
GtLabels(matrix, path, gts, clip_len) ==
    [f \in 1..matrix.shape[2] |->
        IF (f - 1) - (clip_len \div 2) \in GtOffsets(matrix, clip_len)
        THEN GtLabelFrom(gts, 1, path, f - 1, clip_len, Behav.NONE)
        ELSE Behav.NONE]

\* line 153 indexes an array of n frames with offset_mid >= n
GtIndexError(matrix, path, gts, clip_len) ==
    \E offset \in GtOffsets(matrix, clip_len), g \in 1..Len(gts) :
        /\ GtHit(gts[g], path, offset + (clip_len \div 2), clip_len)
        /\ offset + (clip_len \div 2) >= matrix.shape[2]

AnyGtIndexError ==
    \E i \in 1..NumExps :
        GtIndexError(exp_eeg_list[i], cfg.path_list[i].path,
                     cfg.label_gt_list, cfg.clip_len)

LabelGT ==
    /\ pc = "label_gt"
    /\ ~AnyGtIndexError
    /\ data_behav_concat' =
          [i \in 1..NumExps |->
              GtLabels(exp_eeg_list[i], cfg.path_list[i].path,
                       cfg.label_gt_list, cfg.clip_len)]
    /\ gt_behav' = data_behav_concat'
    /\ pc' = "label_rest"
    /\ UNCHANGED << cfg, error, tf, loadVars, specVars, idxVars, thr_list,
                    test_rest_mask, test_boundary_mask, outVars >>

LabelGTFail ==
    /\ pc = "label_gt"
    /\ AnyGtIndexError
    /\ Fail("IndexError")
    /\ UNCHANGED << cfg, tf, loadVars, specVars, idxVars, labelVars, outVars >>

\* threshold_otsu returns a value among the amplitudes it was given
ThrChoices(amps) ==
    LET fin == {a \in {amps[f] : f \in 1..Len(amps)} : a.k = "log"}
    IN IF fin = {} THEN {[k |-> "nan", n |-> 0]} ELSE fin

\* the histogram behind threshold_otsu may reject non-finite or constant input
OtsuMayFail(amps) ==
    \/ \E f \in 1..Len(amps) : amps[f].k # "log"
    \/ Cardinality({amps[f] : f \in 1..Len(amps)}) <= 1

\* line 159
RestMask(amps, thr) == [f \in 1..Len(amps) |-> AmpLess(amps[f], thr)]

\* d[mask] = value
SetWhere(d, mask, value) == [f \in 1..Len(d) |-> IF mask[f] THEN value ELSE d[f]]

\* lines 156-161
LabelRest ==
    /\ pc = "label_rest"
    /\ \E thr \in [1..NumExps ->
                    UNION {ThrChoices(frame_amp_list[i]) : i \in 1..NumExps}] :
          /\ \A i \in 1..NumExps : thr[i] \in ThrChoices(frame_amp_list[i])
          /\ thr_list' = thr
          /\ test_rest_mask' =
                [i \in 1..NumExps |-> RestMask(frame_amp_list[i], thr[i])]
          /\ data_behav_concat' =
                [i \in 1..NumExps |->
                    SetWhere(data_behav_concat[i],
                             RestMask(frame_amp_list[i], thr[i]), Behav.REST)]
    /\ pc' = "label_bound"
    /\ UNCHANGED << cfg, error, tf, loadVars, specVars, idxVars, gt_behav,
                    test_boundary_mask, outVars >>

LabelRestFail ==
    /\ pc = "label_rest"
    /\ \E i \in 1..NumExps : OtsuMayFail(frame_amp_list[i])
    /\ Fail("ValueError")
    /\ UNCHANGED << cfg, tf, loadVars, specVars, idxVars, labelVars, outVars >>

\* lines 166-168: zeros(n); mask[:bound_len] = 1; mask[-bound_len:] = 1
BoundaryMask(n, bound_len) ==
    [f \in 1..n |->
        (f - 1) \in SliceTo(bound_len, n) \cup SliceFrom(0 - bound_len, n)]

\* lines 164-170
LabelBoundary ==
    /\ pc = "label_bound"
    /\ test_boundary_mask' =
          [i \in 1..NumExps |->
              BoundaryMask(Len(frame_amp_list[i]), cfg.bound_len)]
    /\ data_behav_concat' =
          [i \in 1..NumExps |->
              SetWhere(data_behav_concat[i],
                       BoundaryMask(Len(frame_amp_list[i]), cfg.bound_len),
                       Behav.BOUNDARY)]
    /\ pc' = "concat"
    /\ UNCHANGED << cfg, error, tf, loadVars, specVars, idxVars, gt_behav,
                    thr_list, test_rest_mask, outVars >>

\* ---------------------------------------------------------------- output
\* lines 173-178: the tensors are joined along the frame axis, the label
\* arrays end to end (the assertion of line 178 compares the three lengths)
Concat ==
    /\ pc = "concat"
    /\ data_concat' = Concatenate(norm_wav_exp_list)
    /\ data_behav_concat' = Concatenate(data_behav_concat)
    /\ pc' = "mask"
    /\ UNCHANGED << cfg, error, tf, loadVars, specVars, idxVars, gt_behav,
                    thr_list, test_rest_mask, test_boundary_mask, data_mask,
                    preprocess_data, frame_index, experminet_index,
                    frame_amplitudes >>

\* the mask without its boundary term
DataMaskRestOnly(labels, dump_rest, no_bounds) ==
    [i \in 1..Len(labels) |-> ~(dump_rest /\ labels[i] = Behav.REST)]

\* lines 184-188
DataMask(labels, dump_rest, no_bounds) ==
    [i \in 1..Len(labels) |->
        /\ ~(dump_rest /\ labels[i] = Behav.REST)
        /\ ~(no_bounds /\ labels[i] = Behav.BOUNDARY)]

\* line 192: nan and inf become 0
Scrub(col) == [c \in 1..Len(col) |-> IF IsFinite(col[c]) THEN col[c] ELSE Fin(0)]

\* lines 191-192: the masked columns are a copy; the copy is scrubbed
PreprocessData(data, mask) ==
    LET kept == MaskIndex(data, mask)
    IN [k \in 1..Len(kept) |-> Scrub(kept[k])]

\* lines 184-196
ApplyMask ==
    /\ pc = "mask"
    /\ data_mask' = DataMask(data_behav_concat, cfg.dump_rest, cfg.no_bounds)
    /\ preprocess_data' = PreprocessData(data_concat, data_mask')
    /\ frame_index' = MaskIndex(frame_idx, data_mask')
    /\ experminet_index' = MaskIndex(exp_idx, data_mask')
    /\ frame_amplitudes' = MaskIndex(Concatenate(frame_amp_list), data_mask')
    /\ pc' = "bundle"
    /\ UNCHANGED << cfg, error, tf, loadVars, specVars, idxVars, labelVars,
                    data_concat >>

\* lines 199-206: the dictionary handed to the consumers
preprocess_dict ==
    [Paths |-> cfg.path_list,
     EEG_list |-> exp_eeg_list, Smooth_EEG_list |-> smooth_exp_list,
     Spect_list |-> wav_exp_list, Normalized_Spect_list |-> norm_wav_exp_list,
     Exp_matrix |-> preprocess_data,
     Frame_idx |-> frame_index, Experiment_idx |-> experminet_index,
     Frame_amps |-> frame_amplitudes, Rest_mask |-> test_rest_mask,
     Boundary_mask |-> test_boundary_mask]

Bundle ==
    /\ pc = "bundle"
    /\ pc' = "done"
    /\ UNCHANGED << cfg, error, tf, loadVars, specVars, idxVars, labelVars,
                    outVars >>

Next ==
    \/ ReadExperiment
    \/ ReadAssertFail
    \/ QualityScan
    \/ Smooth
    \/ SmoothFail
    \/ MeanCenter
    \/ Transform
    \/ TransformFail
    \/ FrameStats
    \/ Normalize
    \/ SetIndex
    \/ LabelGT
    \/ LabelGTFail
    \/ LabelRest
    \/ LabelRestFail
    \/ LabelBoundary
    \/ Concat
    \/ ApplyMask
    \/ Bundle

Spec == Init /\ [][Next]_vars

TypeOK == pc \in {"read", "smooth", "center", "transform", "stats", "normalize",
                  "index", "label_gt", "label_rest", "label_bound", "concat",
                  "mask", "bundle", "done", "failed"}

\* ================================================================ properties
SetMin(S) == CHOOSE m \in S : \A x \in S : m <= x

\* min(configured tf if given, L_0, ..., L_k) for the k-th recording (k from 1)
BoundAt(k) ==
    SetMin((IF cfg.tf = None THEN {} ELSE {cfg.tf})
           \cup {cfg.path_list[j].rows : j \in 1..k})

RECURSIVE FramesBefore(_)
\* n_0 + ... + n_(e-2): the frames of the experiments ahead of the e-th
FramesBefore(e) == IF e <= 1 THEN 0 ELSE FramesBefore(e - 1) + Frames(e - 1)

TotalFrames == FramesBefore(NumExps + 1)

\* f is within bound_len of the start or the end of an experiment of n frames
InBoundaryRegion(f, n, bound_len) == f < bound_len \/ f >= n - bound_len

\* the lexicographic order of (experiment id, frame offset)
Before(e1, f1, e2, f2) == e1 < e2 \/ (e1 = e2 /\ f1 < f2)

\* C1: when construction completes, the final feature matrix has as many
\* frames as the retained experiment-id and frame-offset arrays have entries,
\* and entry k of both arrays names the experiment and the offset within it
\* of the column k of the matrix (the retained frames keep their order).
C1_IndexArraysAligned ==
    pc = "done" =>
        /\ Len(preprocess_data) = Len(experminet_index)
        /\ Len(preprocess_data) = Len(frame_index)
        /\ \A k \in 1..Len(preprocess_data) :
              /\ experminet_index[k] \in 0..(NumExps - 1)
              /\ frame_index[k] \in 0..(Frames(experminet_index[k] + 1) - 1)
              /\ preprocess_data[k] =
                    Scrub(norm_wav_exp_list[experminet_index[k] + 1]
                                           [frame_index[k] + 1])
              /\ data_mask[FramesBefore(experminet_index[k] + 1)
                           + frame_index[k] + 1]
        /\ \A k \in 1..(Len(preprocess_data) - 1) :
              Before(experminet_index[k], frame_index[k],
                     experminet_index[k + 1], frame_index[k + 1])

C1_Witness ==
    /\ pc = "done"
    /\ NumExps = 2
    /\ Len(preprocess_data) > 0
    /\ Len(preprocess_data) < Len(data_concat)
    /\ \E k \in 1..Len(experminet_index) : experminet_index[k] = 1

\* the final label of the retained frame k
RetainedLabel(k) ==
    data_behav_concat[FramesBefore(experminet_index[k] + 1) + frame_index[k] + 1]

\* C2: with dump_rest no frame the inclusion mask retains has the final
\* label REST, with no_bounds none has the final label BOUNDARY, and with
\* both switches off every frame is retained.
C2_MaskDropsLabels ==
    pc = "done" =>
        /\ Len(data_mask) = TotalFrames
        /\ \A i \in 1..Len(data_mask) :
              data_mask[i] =>
                 /\ cfg.dump_rest => data_behav_concat[i] # Behav.REST
                 /\ cfg.no_bounds => data_behav_concat[i] # Behav.BOUNDARY
        /\ \A k \in 1..Len(frame_index) :
              /\ cfg.dump_rest => RetainedLabel(k) # Behav.REST
              /\ cfg.no_bounds => RetainedLabel(k) # Behav.BOUNDARY
        /\ (~cfg.dump_rest /\ ~cfg.no_bounds) =>
              /\ \A i \in 1..Len(data_mask) : data_mask[i]
              /\ Len(frame_index) = TotalFrames

C2_Witness ==
    /\ pc = "done"
    /\ cfg.dump_rest
    /\ cfg.no_bounds
    /\ \E i \in 1..Len(data_mask) : data_behav_concat[i] = Behav.REST
    /\ \E i \in 1..Len(data_mask) : data_behav_concat[i] = Behav.BOUNDARY
    /\ \E i \in 1..Len(data_mask) : data_mask[i]

\* C3: the final label follows BOUNDARY > REST > ground truth > NONE: a frame
\* within bound_len of an edge is BOUNDARY, any other frame whose amplitude is
\* below the threshold is REST, and every remaining frame has the label the
\* ground-truth pass left it (NONE when it assigned none).
C3_LabelPrecedence ==
    pc = "concat" =>
        \A e \in 1..NumExps : \A f \in 1..Frames(e) :
            data_behav_concat[e][f] =
                IF InBoundaryRegion(f - 1, Frames(e), cfg.bound_len)
                THEN Behav.BOUNDARY
                ELSE IF AmpLess(frame_amp_list[e][f], thr_list[e])
                THEN Behav.REST
                ELSE gt_behav[e][f]

\* C4: with smooth, mean_center, normalize, dump_rest and no_bounds all off,
\* the final matrix is the per-experiment transform outputs joined in order
\* with every finite entry unchanged, it has n_0 + ... + n_k frames, the
\* experiment-id array is n_i copies of i in order, and the frame-offset array
\* counts 0..n_i - 1 within each experiment.
C4_RoundTrip ==
    (/\ pc = "done"
     /\ ~cfg.smooth /\ ~cfg.mean_center /\ ~cfg.normalize
     /\ ~cfg.dump_rest /\ ~cfg.no_bounds) =>
        /\ Len(preprocess_data) = TotalFrames
        /\ Len(experminet_index) = TotalFrames
        /\ Len(frame_index) = TotalFrames
        /\ \A e \in 1..NumExps : \A f \in 1..Frames(e) :
              LET k == FramesBefore(e) + f
              IN /\ experminet_index[k] = e - 1
                 /\ frame_index[k] = f - 1
                 /\ Len(preprocess_data[k]) = NumChan
                 /\ \A c \in 1..NumChan :
                       IsFinite(spect_out[e][f][c]) =>
                           preprocess_data[k][c] = spect_out[e][f][c]

C4_Witness ==
    /\ pc = "done"
    /\ ~cfg.smooth /\ ~cfg.mean_center /\ ~cfg.normalize
    /\ ~cfg.dump_rest /\ ~cfg.no_bounds
    /\ NumExps = 2
    /\ Frames(1) # Frames(2)
    /\ \E f \in 1..Frames(1) : \E c \in 1..NumChan :
          /\ IsFinite(spect_out[1][f][c])
          /\ spect_out[1][f][c] # FloatDiv(spect_out[1][f][c],
                                           ColMax(spect_out[1][f]))

\* C5: a configured tf <= ti ends construction with the configuration error
\* before any matrix is allocated and before any later stage runs, whatever
\* the list of experiments; and construction stops at the first experiment
\* whose resolved tf is <= ti, never returning a bundle.
C5_ConfigurationError ==
    /\ (cfg.tf # None /\ cfg.tf <= cfg.ti) =>
          /\ pc \in {"read", "failed"}
          /\ exp_eeg_list = <<>>
          /\ pc = "failed" => error = "AssertionError"
    /\ \A k \in 1..NumExps :
          BoundAt(k) <= cfg.ti =>
              /\ pc # "done"
              /\ Len(exp_eeg_list) < k
              /\ pc = "failed" => error = "AssertionError"

\* C6: the loader's bound is carried from one experiment to the next: the
\* k-th matrix has shape (electrode count, tf_k - ti) with
\* tf_k = min(configured tf if given, L_0, ..., L_k); the frame counts never
\* increase along the list, and with tf unset the first length bounds the rest.
C6_SequentialBound ==
    /\ \A k \in 1..Len(exp_eeg_list) :
          exp_eeg_list[k].shape = <<NumElectrodes, BoundAt(k) - cfg.ti>>
    /\ \A j \in 1..Len(exp_eeg_list) : \A k \in j..Len(exp_eeg_list) :
          exp_eeg_list[k].shape[2] <= exp_eeg_list[j].shape[2]
    /\ cfg.tf = None =>
          \A k \in 1..Len(exp_eeg_list) :
              exp_eeg_list[k].shape[2] <= cfg.path_list[1].rows - cfg.ti

C6_Witness ==
    /\ Len(exp_eeg_list) = 2
    /\ cfg.tf = None
    /\ cfg.path_list[2].rows > cfg.path_list[1].rows
    /\ exp_eeg_list[2].shape[2] = cfg.path_list[1].rows - cfg.ti

\* the ground-truth interval gt labels frame f of an experiment of n frames
GtApplies(gt, path, f, n, clip_len) ==
    /\ IsSubstring(gt.folder, path)
    /\ clip_len \div 2 <= f
    /\ f < n - (clip_len \div 2)
    /\ gt.start < f
    /\ f < gt.end
    /\ 3 * (f - gt.start) >= clip_len
    /\ 3 * (gt.end - f) >= clip_len

\* C7: before the rest and boundary overrides, frame f of an experiment of n
\* frames carries the label of a ground-truth interval exactly when the
\* interval is selected for the experiment's path, clip_len/2 <= f <
\* n - clip_len/2, f is strictly inside the interval and at least clip_len/3
\* from both its edges; every other frame is NONE, and no labelling step
\* indexes a frame outside 0..n-1.
C7_GroundTruthFrames ==
    /\ error # "IndexError"
    /\ pc = "label_rest" =>
          \A e \in 1..NumExps : \A f \in 1..Frames(e) :
              LET sel == {g \in 1..Len(cfg.label_gt_list) :
                            GtApplies(cfg.label_gt_list[g],
                                      cfg.path_list[e].path, f - 1, Frames(e),
                                      cfg.clip_len)}
              IN IF sel = {} THEN gt_behav[e][f] = Behav.NONE
                 ELSE \E g \in sel : gt_behav[e][f] = cfg.label_gt_list[g].label

\* C8: for every bound_len >= 0 the boundary mask is true at offset f exactly
\* when f < bound_len or f >= n - bound_len, and exactly those frames are
\* labelled BOUNDARY; bound_len = 0 marks no frame.
C8_BoundaryMaskExtent ==
    pc = "concat" =>
        \A e \in 1..NumExps : \A f \in 1..Frames(e) :
            /\ test_boundary_mask[e][f] =
                  InBoundaryRegion(f - 1, Frames(e), cfg.bound_len)
            /\ (data_behav_concat[e][f] = Behav.BOUNDARY) =
                  InBoundaryRegion(f - 1, Frames(e), cfg.bound_len)

\* C9: the inclusion mask is applied to every per-frame array alike: after
\* construction the label vector, the amplitude array, the frame-offset array
\* and the experiment-id array all have the feature matrix's frame count.
C9_AllArraysMasked ==
    pc = "done" =>
        /\ Len(data_behav_concat) = Len(preprocess_data)
        /\ Len(frame_amplitudes) = Len(preprocess_data)
        /\ Len(frame_index) = Len(preprocess_data)
        /\ Len(experminet_index) = Len(preprocess_data)

\* C10: with normalize set, the spectral tensors of the bundle still equal
\* the transform's output, the normalized tensors are that output with each
\* column divided by its maximum, and the two lists differ whenever some
\* column maximum is not 1.
C10_SpectraKept ==
    (pc = "done" /\ cfg.normalize) =>
        /\ preprocess_dict.Spect_list = spect_out
        /\ preprocess_dict.Normalized_Spect_list =
              [i \in 1..Len(spect_out) |-> NormalizeExp(spect_out[i])]
        /\ (\E i \in 1..Len(spect_out) : \E f \in 1..Len(spect_out[i]) :
               ColMax(spect_out[i][f]) # Fin(1))
           => preprocess_dict.Spect_list
                 # preprocess_dict.Normalized_Spect_list

====
